---- MODULE Spec2Model ----
(***************************************************************************)
(* A model of jpegdump.py: JpegReader.dump() walking a byte stream, the    *)
(* escape predicate, the marker dispatch table and the segment decoders.   *)
(* One behaviour of the model is one run of dump() over one input file.    *)
(***************************************************************************)
EXTENDS Integers, Sequences, FiniteSets, TLC

VARIABLES
    file,             \* the bytes of the input file (self.file), a sequence over 0..255
    pos,              \* self.file.tell(): the number of bytes consumed so far
    jpegls_stream,    \* self.jpegls_stream: FALSE = HeaderMode, TRUE = CompressedMode
    out,              \* the lines printed so far, in order
    pc,               \* the statement dump() is about to execute
    status,           \* "running", "done" (dump() returned) or "error" (IndexError raised)
    byte,             \* dump()'s local byte as left by _read_bytes(): a sequence of 0 or 1 bytes
    marker_code,      \* the code byte read at line 36 (-1 before any was read)
    component_count,  \* the decoders' local component_count
    i,                \* iterations of the decoder's component loop completed
    reads,            \* history: every file.read(1) call, [at |-> offset, n |-> bytes returned]
    escape_at         \* history: offset of the last 0xFF byte the scan loop read (-1: none)

vars == <<file, pos, jpegls_stream, out, pc, status, byte, marker_code,
          component_count, i, reads, escape_at>>

----------------------------------------------------------------------------
(* Bounds of the input space. *)

MaxLen == 4          \* longest input made of freely chosen sample bytes
MaxTail == 2         \* longest run of freely chosen bytes after a complete segment
MaxComponents == 2   \* largest component count of the well-formed segments

----------------------------------------------------------------------------
(* JpegMarker *)

START_OF_IMAGE == 216
END_OF_IMAGE == 217
START_OF_SCAN == 218
START_OF_FRAME_JPEGLS == 247
ESCAPE == 255

Byte == 0..255

----------------------------------------------------------------------------
(* Integer operators of the source, on naturals. *)

Min(a, b) == IF a < b THEN a ELSE b

RECURSIVE BitAnd(_, _)
BitAnd(a, b) ==
    IF a = 0 \/ b = 0 THEN 0
    ELSE (a % 2) * (b % 2) + 2 * BitAnd(a \div 2, b \div 2)

RECURSIVE BitOr(_, _)
BitOr(a, b) ==
    IF a = 0 THEN b
    ELSE IF b = 0 THEN a
    ELSE (IF a % 2 = 1 \/ b % 2 = 1 THEN 1 ELSE 0) + 2 * BitOr(a \div 2, b \div 2)

ShiftLeft(a, n) == a * 2^n
ShiftRight(a, n) == a \div 2^n

HexDigits == <<"0", "1", "2", "3", "4", "5", "6", "7",
               "8", "9", "A", "B", "C", "D", "E", "F">>

\* the digits of n in base 16, upper case, as a sequence of characters
RECURSIVE HexUpper(_)
HexUpper(n) ==
    IF n < 16 THEN <<HexDigits[n + 1]>>
    ELSE Append(HexUpper(n \div 16), HexDigits[(n % 16) + 1])

\* variant: format spec X, no padding
Format02X_unpadded(n) == HexUpper(n)

\* format spec 02X: upper case hexadecimal, zero padded to a width of two
Format02X(n) == IF Len(HexUpper(n)) < 2 THEN <<"0">> \o HexUpper(n) ELSE HexUpper(n)

----------------------------------------------------------------------------
(* The byte cursor.  A cursor c is a record with fields pos and reads.     *)

\* self.file.read(1) at cursor c of file f
file_read(f, c) ==
    LET data == SubSeq(f, c.pos + 1, Min(c.pos + 1, Len(f)))
    IN  [data  |-> data,
         pos   |-> c.pos + Len(data),
         reads |-> Append(c.reads, [at |-> c.pos, n |-> Len(data)])]

\* _read_bytes
read_bytes(f, c) == file_read(f, c)

\* _read_byte: indexing the empty bytes object raises IndexError (ok = FALSE)
read_byte(f, c) ==
    LET r == file_read(f, c)
    IN  [ok    |-> r.data # <<>>,
         value |-> IF r.data # <<>> THEN r.data[1] ELSE -1,
         pos   |-> r.pos,
         reads |-> r.reads]

\* variant: the first byte read is taken as the low byte
read_uint16_little_endian(f, c) ==
    LET lo == read_byte(f, c)
    IN  IF ~lo.ok THEN lo
        ELSE LET hi == read_byte(f, lo)
             IN  IF ~hi.ok THEN hi
                 ELSE [ok    |-> TRUE,
                       value |-> BitOr(ShiftLeft(hi.value, 8), lo.value),
                       pos   |-> hi.pos,
                       reads |-> hi.reads]

\* variant: both bytes are read at the cursor the call started from
read_uint16_big_endian_same_cursor(f, c) ==
    LET hi == read_byte(f, c)
    IN  IF ~hi.ok THEN hi
        ELSE LET lo == read_byte(f, c)
             IN  IF ~lo.ok THEN lo
                 ELSE [ok    |-> TRUE,
                       value |-> BitOr(ShiftLeft(hi.value, 8), lo.value),
                       pos   |-> lo.pos,
                       reads |-> lo.reads]

\* _read_uint16_big_endian: the left operand is read first
read_uint16_big_endian(f, c) ==
    LET hi == read_byte(f, c)
    IN  IF ~hi.ok THEN hi
        ELSE LET lo == read_byte(f, hi)
             IN  IF ~lo.ok THEN lo
                 ELSE [ok    |-> TRUE,
                       value |-> BitOr(ShiftLeft(hi.value, 8), lo.value),
                       pos   |-> lo.pos,
                       reads |-> lo.reads]

\* _position
position(p) == p

\* variant: the cursor is not moved back over the marker
get_start_offset_at_cursor(p) == position(p)

\* variant: the offset of the code byte
get_start_offset_code_byte(p) == position(p) - 1

\* _get_start_offset
get_start_offset(p) == position(p) - 2

Cursor == [pos |-> pos, reads |-> reads]

----------------------------------------------------------------------------
(* The escape predicate and the dispatch table. *)

\* variant: the high-bit rule applied in both modes
is_marker_code_high_bit_only(jpegls, code) == BitAnd(code, 128) = 128

\* variant: the escape value itself is not taken as a marker code
is_marker_code_below_escape(jpegls, code) ==
    code < 255 /\ (IF jpegls THEN BitAnd(code, 128) = 128 ELSE code > 0)

is_marker_code(jpegls, code) ==
    IF jpegls THEN BitAnd(code, 128) = 128 ELSE code > 0

\* variant: the table has no entry for START_OF_SCAN
dump_functions_without_scan(code) ==
    CASE code = START_OF_IMAGE -> "soi"
      [] code = END_OF_IMAGE -> "eoi"
      [] code = START_OF_FRAME_JPEGLS -> "sof_marker"
      [] OTHER -> "None"

\* self.dump_functions.get(marker_code, None), a decoder being named by the
\* label of its first statement
dump_functions(code) ==
    CASE code = START_OF_IMAGE -> "soi"
      [] code = END_OF_IMAGE -> "eoi"
      [] code = START_OF_FRAME_JPEGLS -> "sof_marker"
      [] code = START_OF_SCAN -> "sos_marker"
      [] OTHER -> "None"

\* _dump_marker_code: the label of the first statement of the decoder called
dump_marker_code(code) ==
    LET dump_function == dump_functions(code)
    IN  IF dump_function = "None" THEN "unknown" ELSE dump_function

interleave_names == <<"None", "Line interleaved", "Sample interleaved">>

\* variant: the last name of the table is out of reach
get_interleave_mode_name_short(interleave_mode) ==
    IF interleave_mode < Len(interleave_names) - 1
    THEN interleave_names[interleave_mode + 1]
    ELSE "Invalid"

get_interleave_mode_name(interleave_mode) ==
    IF interleave_mode < Len(interleave_names)
    THEN interleave_names[interleave_mode + 1]
    ELSE "Invalid"

----------------------------------------------------------------------------
(* Printed lines. *)

\* a field line: "<offset> <label> = <value> (<text>)"
Line(offset, label, value) ==
    [offset |-> offset, label |-> label, hex |-> <<>>, value |-> value, text |-> "",
     open |-> FALSE]

\* a field line printed with end='' whose value was never printed
OpenLine(offset, label) ==
    [offset |-> offset, label |-> label, hex |-> <<>>, value |-> <<>>, text |-> "",
     open |-> TRUE]

\* a marker line: "<offset> Marker 0xFF<hex><text>", hex a sequence of characters
MarkerLine(offset, hex, text) ==
    [offset |-> offset, label |-> "Marker 0xFF", hex |-> hex, value |-> <<>>,
     text |-> text, open |-> FALSE]

----------------------------------------------------------------------------
(* The inputs: every byte string is a legal input of dump(); the runs are  *)
(* taken over the families below.                                          *)

\* 0x00 0x7F 0xC0 0xD8 0xD9 0xDA 0xF7 0xFF
ByteSample == {0, 127, 192, 216, 217, 218, 247, 255}

FreeSeqs(n) == UNION { [1..k -> ByteSample] : k \in 0..n }

RECURSIVE Repeat(_, _)
Repeat(s, n) == IF n = 0 THEN <<>> ELSE s \o Repeat(s, n - 1)

\* FF F7, size a b, precision a, lines a b, samples a b, count n, n * (Ci a, HV b, Tq a)
FrameSegment(n, a, b) ==
    <<255, 247, a, b, a, a, b, a, b, n>> \o Repeat(<<a, b, a>>, n)

\* FF DA, size a b, count n, n * (Ci a, selector b), NEAR a, ILV b, point transform a
ScanSegment(n, a, b) ==
    <<255, 218, a, b, n>> \o Repeat(<<a, b>>, n) \o <<a, b, a>>

\* field bytes of the segments followed by free bytes: a plain pair, and the
\* pair FF F7 that puts an escape byte and a marker code inside the segment
NarrowPairs == {<<0, 11>>, <<255, 247>>}

\* field bytes covering every value of one byte, and the two extreme pairs
WidePairs ==
    {<<1, b>> : b \in Byte} \cup {<<a, 2>> : a \in Byte} \cup {<<0, 0>>, <<255, 255>>}

Frames == {FrameSegment(n, q[1], q[2]) : n \in 0..MaxComponents, q \in NarrowPairs}
Scans == {ScanSegment(n, q[1], q[2]) : n \in 0..MaxComponents, q \in NarrowPairs}
FrameThenScan ==
    {FrameSegment(n, q[1], q[2]) \o ScanSegment(n, q[1], q[2]) :
        n \in 0..MaxComponents, q \in NarrowPairs}
FrameThenFrame ==
    {FrameSegment(n, q[1], q[2]) \o FrameSegment(n, q[1], q[2]) :
        n \in 0..MaxComponents, q \in NarrowPairs}
Segments == Frames \cup Scans \cup FrameThenScan \cup FrameThenFrame

SegmentInputs == {s \o t : s \in Segments, t \in FreeSeqs(MaxTail)}
TruncatedInputs == UNION { {SubSeq(s, 1, k) : k \in 0..Len(s)} : s \in Segments }
WideInputs ==
    {FrameSegment(1, q[1], q[2]) : q \in WidePairs}
        \cup {ScanSegment(1, q[1], q[2]) : q \in WidePairs}
\* FF c for every code c, met in HeaderMode and after a complete frame header
EscapeInputs ==
    {p \o <<255, c>> \o t :
        p \in {<<>>, FrameSegment(0, 0, 11)}, c \in Byte, t \in {<<>>, <<216>>}}

Inputs ==
    FreeSeqs(MaxLen) \cup SegmentInputs \cup TruncatedInputs \cup WideInputs
        \cup EscapeInputs

\* the inputs of the runs checked for termination: short free inputs, the
\* segments whole, cut at every byte and followed by a few bytes, and the
\* segments with the extreme field bytes
Tails == {<<>>, <<0>>, <<255>>, <<255, 217>>, <<255, 127>>}
TerminationInputs ==
    FreeSeqs(MaxTail + 1) \cup TruncatedInputs
        \cup {s \o t : s \in Segments, t \in Tails}
        \cup {FrameSegment(1, q[1], q[2]) : q \in {<<0, 0>>, <<255, 255>>}}
        \cup {ScanSegment(1, q[1], q[2]) : q \in {<<0, 0>>, <<255, 255>>}}

----------------------------------------------------------------------------
(* The run. *)

\* the reader as constructed, before dump() is called on file f
Start(f) ==
    /\ file = f
    /\ pos = 0
    /\ jpegls_stream = FALSE
    /\ out = <<>>
    /\ pc = "scan"
    /\ status = "running"
    /\ byte = <<>>
    /\ marker_code = -1
    /\ component_count = 0
    /\ i = 0
    /\ reads = <<>>
    /\ escape_at = -1

Init == \E f \in Inputs : Start(f)

FairInit == \E f \in TerminationInputs : Start(f)

\* dump(), lines 33-35 and 39: read one byte; stop at the end of the file,
\* go for the code byte after 0xFF, read on otherwise
Scan ==
    /\ pc = "scan" /\ status = "running"
    /\ LET r == read_bytes(file, Cursor)
       IN  /\ byte' = r.data
           /\ pos' = r.pos
           /\ reads' = r.reads
           /\ IF r.data = <<>>
              THEN status' = "done" /\ pc' = pc /\ escape_at' = escape_at
              ELSE /\ status' = status
                   /\ IF r.data[1] = ESCAPE
                      THEN pc' = "code" /\ escape_at' = pos
                      ELSE pc' = "scan" /\ escape_at' = escape_at
    /\ UNCHANGED <<file, jpegls_stream, out, marker_code, component_count, i>>

\* dump(), lines 36-38: read the code byte, test it, call the decoder
ReadCode ==
    /\ pc = "code" /\ status = "running"
    /\ LET r == read_byte(file, Cursor)
       IN  /\ pos' = r.pos
           /\ reads' = r.reads
           /\ IF r.ok
              THEN /\ marker_code' = r.value
                   /\ status' = status
                   /\ pc' = IF is_marker_code(jpegls_stream, r.value)
                            THEN dump_marker_code(r.value)
                            ELSE "scan"
              ELSE status' = "error" /\ pc' = pc /\ marker_code' = marker_code
    /\ UNCHANGED <<file, jpegls_stream, out, byte, component_count, i, escape_at>>

\* a statement that prints one line without reading
Emit(here, line, next) ==
    /\ pc = here /\ status = "running"
    /\ out' = Append(out, line)
    /\ pc' = next
    /\ UNCHANGED <<file, pos, jpegls_stream, status, byte, marker_code,
                   component_count, i, reads, escape_at>>

\* a statement that reads a field (result r) and prints its line; when the
\* read raises, nothing is printed (partial: what print(..., end='') had
\* already written)
Field(here, r, line, partial, next) ==
    /\ pc = here /\ status = "running"
    /\ pos' = r.pos
    /\ reads' = r.reads
    /\ IF r.ok
       THEN out' = Append(out, line) /\ pc' = next /\ status' = status
       ELSE out' = out \o partial /\ pc' = pc /\ status' = "error"
    /\ UNCHANGED <<file, jpegls_stream, byte, marker_code, escape_at>>

dump_start_of_image_marker ==
    /\ Emit("soi", MarkerLine(get_start_offset(pos), <<"D", "8">>, ": SOI (Start Of Image)"),
             "scan")

dump_end_of_image ==
    /\ Emit("eoi", MarkerLine(get_start_offset(pos), <<"D", "9">>, ". EOI (End Of Image)"),
             "scan")

dump_unknown_marker ==
    /\ Emit("unknown",
             MarkerLine(get_start_offset(pos), Format02X(marker_code), ""),
             "scan")

\* _dump_start_of_frame_jpegls, one action per statement

\* variant: the mode is set on entry to the decoder
sof_marker_sets_mode ==
    /\ pc = "sof_marker" /\ status = "running"
    /\ out' = Append(out, MarkerLine(get_start_offset(pos), <<"F", "7">>,
                                     ": SOF_55 (Start Of Frame JPEG-LS)"))
    /\ jpegls_stream' = TRUE
    /\ pc' = "sof_size"
    /\ UNCHANGED <<file, pos, status, byte, marker_code, component_count, i, reads,
                   escape_at>>

sof_marker ==
    /\ Emit("sof_marker",
            MarkerLine(get_start_offset(pos), <<"F", "7">>, ": SOF_55 (Start Of Frame JPEG-LS)"),
            "sof_size")

sof_size ==
    /\ LET r == read_uint16_big_endian(file, Cursor)
       IN  Field("sof_size", r, Line(position(pos), "Size", <<r.value>>), <<>>,
                 "sof_precision")
    /\ UNCHANGED <<component_count, i>>

\* variant: the label is printed before the read, as in _dump_start_of_scan
sof_precision_label_first ==
    /\ LET r == read_byte(file, Cursor)
       IN  Field("sof_precision", r, Line(position(pos), "Sample precision (P)", <<r.value>>),
                 <<OpenLine(position(pos), "Sample precision (P)")>>, "sof_lines")
    /\ UNCHANGED <<component_count, i>>

sof_precision ==
    /\ LET r == read_byte(file, Cursor)
       IN  Field("sof_precision", r, Line(position(pos), "Sample precision (P)", <<r.value>>),
                 <<>>, "sof_lines")
    /\ UNCHANGED <<component_count, i>>

sof_lines ==
    /\ LET r == read_uint16_big_endian(file, Cursor)
       IN  Field("sof_lines", r, Line(position(pos), "Number of lines (Y)", <<r.value>>),
                 <<>>, "sof_samples")
    /\ UNCHANGED <<component_count, i>>

sof_samples ==
    /\ LET r == read_uint16_big_endian(file, Cursor)
       IN  Field("sof_samples", r,
                 Line(position(pos), "Number of samples per line (X)", <<r.value>>),
                 <<>>, "sof_count")
    /\ UNCHANGED <<component_count, i>>

\* variant: the position is taken after the count was read
sof_count_late_position ==
    /\ LET r == read_byte(file, Cursor)
       IN  /\ Field("sof_count", r,
                    Line(position(r.pos), "Number of image components in a frame (Nf)",
                         <<r.value>>),
                    <<>>, IF 0 < r.value THEN "sof_ci" ELSE "sof_return")
           /\ component_count' = IF r.ok THEN r.value ELSE component_count
    /\ i' = 0

\* lines 77-80: the count, then the loop head
sof_count ==
    /\ LET r == read_byte(file, Cursor)
       IN  /\ Field("sof_count", r,
                    Line(position(pos), "Number of image components in a frame (Nf)",
                         <<r.value>>),
                    <<>>, IF 0 < r.value THEN "sof_ci" ELSE "sof_return")
           /\ component_count' = IF r.ok THEN r.value ELSE component_count
    /\ i' = 0

sof_ci ==
    /\ LET r == read_byte(file, Cursor)
       IN  Field("sof_ci", r, Line(position(pos), "Component identifier (Ci)", <<r.value>>),
                 <<>>, "sof_hv")
    /\ UNCHANGED <<component_count, i>>

\* variant: the low nibble is masked with 7
sof_hv_low_three_bits ==
    /\ LET r == read_byte(file, Cursor)
       IN  Field("sof_hv", r,
                 Line(position(pos), "H and V sampling factor (Hi + Vi)",
                      <<r.value, ShiftRight(r.value, 4), BitAnd(r.value, 7)>>),
                 <<>>, "sof_tq")
    /\ UNCHANGED <<component_count, i>>

\* lines 82-85: the value and its two nibbles
sof_hv ==
    /\ LET r == read_byte(file, Cursor)
       IN  Field("sof_hv", r,
                 Line(position(pos), "H and V sampling factor (Hi + Vi)",
                      <<r.value, ShiftRight(r.value, 4), BitAnd(r.value, 15)>>),
                 <<>>, "sof_tq")
    /\ UNCHANGED <<component_count, i>>

\* variant: the component loop runs once more
sof_tq_one_more ==
    /\ LET r == read_byte(file, Cursor)
       IN  /\ Field("sof_tq", r,
                    Line(position(pos), "Quantization table (Tqi) [reserved, should be 0]",
                         <<r.value>>),
                    <<>>, IF i + 1 <= component_count THEN "sof_ci" ELSE "sof_return")
           /\ i' = IF r.ok THEN i + 1 ELSE i
    /\ UNCHANGED component_count

\* line 86, then the loop head again
sof_tq ==
    /\ LET r == read_byte(file, Cursor)
       IN  /\ Field("sof_tq", r,
                    Line(position(pos), "Quantization table (Tqi) [reserved, should be 0]",
                         <<r.value>>),
                    <<>>, IF i + 1 < component_count THEN "sof_ci" ELSE "sof_return")
           /\ i' = IF r.ok THEN i + 1 ELSE i
    /\ UNCHANGED component_count

\* variant: the decoder sets the mode and never returns
sof_return_never ==
    /\ pc = "sof_return" /\ status = "running"
    /\ jpegls_stream' = TRUE
    /\ UNCHANGED <<file, pos, out, pc, status, byte, marker_code, component_count, i,
                   reads, escape_at>>

\* variant: the decoder returns without setting the mode
sof_return_keeps_mode ==
    /\ pc = "sof_return" /\ status = "running"
    /\ pc' = "scan"
    /\ UNCHANGED <<file, pos, jpegls_stream, out, status, byte, marker_code,
                   component_count, i, reads, escape_at>>

\* line 87
sof_return ==
    /\ pc = "sof_return" /\ status = "running"
    /\ jpegls_stream' = TRUE
    /\ pc' = "scan"
    /\ UNCHANGED <<file, pos, out, status, byte, marker_code, component_count, i,
                   reads, escape_at>>

\* _dump_start_of_scan, one action per statement

\* variant: the decoder starts with the size field, printing no marker line
sos_marker_silent ==
    /\ pc = "sos_marker" /\ status = "running"
    /\ pc' = "sos_size"
    /\ UNCHANGED <<file, pos, jpegls_stream, out, status, byte, marker_code,
                   component_count, i, reads, escape_at>>

sos_marker ==
    /\ Emit("sos_marker",
            MarkerLine(get_start_offset(pos), <<"D", "A">>, ": SOS (Start Of Scan)"),
            "sos_size")

sos_size ==
    /\ LET r == read_uint16_big_endian(file, Cursor)
       IN  Field("sos_size", r, Line(position(pos), "Size", <<r.value>>), <<>>, "sos_count")
    /\ UNCHANGED <<component_count, i>>

\* variant: the loop body runs before the count is tested
sos_count_body_first ==
    /\ LET r == read_byte(file, Cursor)
       IN  /\ Field("sos_count", r, Line(position(pos), "Component Count", <<r.value>>),
                    <<OpenLine(position(pos), "Component Count")>>, "sos_ci")
           /\ component_count' = IF r.ok THEN r.value ELSE component_count
    /\ i' = 0

\* lines 92-95: the label is printed before the read, the value after it
sos_count ==
    /\ LET r == read_byte(file, Cursor)
       IN  /\ Field("sos_count", r, Line(position(pos), "Component Count", <<r.value>>),
                    <<OpenLine(position(pos), "Component Count")>>,
                    IF 0 < r.value THEN "sos_ci" ELSE "sos_near")
           /\ component_count' = IF r.ok THEN r.value ELSE component_count
    /\ i' = 0

sos_ci ==
    /\ LET r == read_byte(file, Cursor)
       IN  Field("sos_ci", r, Line(position(pos), "Component identifier (Ci)", <<r.value>>),
                 <<>>, "sos_map")
    /\ UNCHANGED <<component_count, i>>

sos_map ==
    /\ LET r == read_byte(file, Cursor)
       IN  /\ Field("sos_map", r, Line(position(pos), "Mapping table selector", <<r.value>>),
                    <<>>, IF i + 1 < component_count THEN "sos_ci" ELSE "sos_near")
           /\ i' = IF r.ok THEN i + 1 ELSE i
    /\ UNCHANGED component_count

sos_near ==
    /\ LET r == read_byte(file, Cursor)
       IN  Field("sos_near", r, Line(position(pos), "Near lossless (NEAR parameter)", <<r.value>>),
                 <<>>, "sos_ilv")
    /\ UNCHANGED <<component_count, i>>

\* lines 99-101: the label is printed before the read, value and name after it
sos_ilv ==
    /\ LET r == read_byte(file, Cursor)
       IN  Field("sos_ilv", r,
                 [Line(position(pos), "Interleave mode (ILV parameter)", <<r.value>>)
                     EXCEPT !.text = get_interleave_mode_name(r.value)],
                 <<OpenLine(position(pos), "Interleave mode (ILV parameter)")>>,
                 "sos_pt")
    /\ UNCHANGED <<component_count, i>>

sos_pt ==
    /\ LET r == read_byte(file, Cursor)
       IN  Field("sos_pt", r, Line(position(pos), "Point Transform", <<r.value>>), <<>>, "scan")
    /\ UNCHANGED <<component_count, i>>

Next ==
    \/ Scan
    \/ ReadCode
    \/ dump_start_of_image_marker
    \/ dump_end_of_image
    \/ dump_unknown_marker
    \/ sof_marker
    \/ sof_size
    \/ sof_precision
    \/ sof_lines
    \/ sof_samples
    \/ sof_count
    \/ sof_ci
    \/ sof_hv
    \/ sof_tq
    \/ sof_return
    \/ sos_marker
    \/ sos_size
    \/ sos_count
    \/ sos_ci
    \/ sos_map
    \/ sos_near
    \/ sos_ilv
    \/ sos_pt

Spec == Init /\ [][Next]_vars

\* dump() runs sequentially: a statement that can execute does execute
FairSpec == FairInit /\ [][Next]_vars /\ WF_vars(Next)

----------------------------------------------------------------------------
(* Vocabulary of the properties. *)

Last(s) == s[Len(s)]

\* bit 7 of a byte
HighBit(c) == (c \div 128) % 2 = 1

\* the escape predicate as the specification states it
MarkerStart(mode, c) == IF mode THEN HighBit(c) ELSE c # 0

DecoderEntries == {"soi", "eoi", "sof_marker", "sos_marker", "unknown"}
FrameFieldSteps == {"sof_size", "sof_precision", "sof_lines", "sof_samples", "sof_count",
                    "sof_ci", "sof_hv", "sof_tq"}
ScanFieldSteps == {"sos_size", "sos_count", "sos_ci", "sos_map", "sos_near", "sos_ilv",
                   "sos_pt"}
FieldSteps == FrameFieldSteps \cup ScanFieldSteps

IsMarkerLine(l) == l.label = "Marker 0xFF"
IsFrameMarkerLine(l) == IsMarkerLine(l) /\ l.hex = <<"F", "7">>

\* the value of an upper-case hexadecimal digit, 16 for any other character
DigitValue(ch) ==
    IF \E v \in 0..15 : HexDigits[v + 1] = ch
    THEN CHOOSE v \in 0..15 : HexDigits[v + 1] = ch
    ELSE 16

\* the code byte of the segment whose escape byte is at offset e, and the
\* component-count byte of a frame header there (its 8th byte after the code)
CodeAt(e) == file[e + 2]
FrameCountAt(e) == file[e + 10]

\* StepTaken: the step is one of the run, not a stuttering step
StepTaken == status = "running" /\ vars' # vars

----------------------------------------------------------------------------
(* C1: the code byte read after 0xFF is dispatched as a marker if and only *)
(* if it is non-zero (HeaderMode) or has bit 7 set (CompressedMode); when  *)
(* it is not, no line is printed and scanning goes on with the next byte.  *)

C1_Step ==
    (pc = "code" /\ StepTaken /\ pos < Len(file)) =>
        LET code == file[pos + 1]
        IN  /\ marker_code' = code
            /\ (pc' \in DecoderEntries) <=> MarkerStart(jpegls_stream, code)
            /\ ~MarkerStart(jpegls_stream, code) =>
                   pc' = "scan" /\ out' = out /\ pos' = pos + 1 /\ status' = "running"

\* C1: a code byte after 0xFF is dispatched iff it passes the mode's escape rule
C1_EscapePredicate == [][C1_Step]_vars

\* 0xFF 0x7F met in CompressedMode: consumed, not dispatched, nothing printed for it
C1_Witness ==
    /\ jpegls_stream /\ pc = "scan" /\ marker_code = 127 /\ pos = escape_at + 2
    /\ Last(out).offset < escape_at

----------------------------------------------------------------------------
(* C2: the mode starts as HeaderMode and changes only from HeaderMode to   *)
(* CompressedMode, only in the last statement of the frame-header decoder  *)
(* after all its fields were read; no other step changes it.               *)

C2_Step ==
    (jpegls_stream' # jpegls_stream) =>
        /\ jpegls_stream = FALSE /\ jpegls_stream' = TRUE
        /\ pc = "sof_return"
        /\ CodeAt(escape_at) = START_OF_FRAME_JPEGLS
        /\ component_count = FrameCountAt(escape_at)
        /\ pos = escape_at + 2 + 8 + 3 * component_count
        /\ pos' = pos /\ out' = out

\* C2: HeaderMode at the start; the only change is to CompressedMode at the end of a frame header
C2_ModeOnlyRises == (jpegls_stream = FALSE) /\ [][C2_Step]_vars

\* a second frame header decoded while already in CompressedMode
C2_Witness ==
    /\ jpegls_stream /\ pc = "scan" /\ marker_code = START_OF_FRAME_JPEGLS
    /\ Cardinality({k \in DOMAIN out : IsFrameMarkerLine(out[k])}) = 2
    /\ pos = escape_at + 2 + 8 + 3 * component_count

----------------------------------------------------------------------------
(* C3: a frame header whose bytes are all present is decoded to its end,   *)
(* consuming exactly 8 + 3N bytes after the code byte whatever the size    *)
(* field says, and the mode is CompressedMode when the decoder returns.    *)

FramePresent(e) ==
    /\ Len(file) >= e + 10
    /\ Len(file) >= e + 10 + 3 * FrameCountAt(e)

InFrameDecoder == pc \in FrameFieldSteps \cup {"sof_marker", "sof_return"}

C3_Inside ==
    (InFrameDecoder /\ FramePresent(escape_at)) =>
        /\ status = "running"
        /\ pos <= escape_at + 10 + 3 * FrameCountAt(escape_at)

C3_Return ==
    (pc = "sof_return" /\ StepTaken) =>
        /\ FramePresent(escape_at)
        /\ pos' = escape_at + 2 + 8 + 3 * FrameCountAt(escape_at)
        /\ jpegls_stream' = TRUE
        /\ pc' = "scan"

\* C3: a complete frame header consumes 8 + 3N bytes and leaves CompressedMode
C3_FrameConsumes == []C3_Inside /\ [][C3_Return]_vars

\* a two-component header fully read whose size field is not 8 + 3 * 2
C3_Witness ==
    /\ pc = "sof_return" /\ component_count = 2
    /\ pos = escape_at + 2 + 8 + 3 * 2
    /\ 256 * file[escape_at + 3] + file[escape_at + 4] # 8 + 3 * 2

----------------------------------------------------------------------------
(* C4: after a frame header was decoded, 0xFF c with c in 0x01..0x7F       *)
(* prints nothing, while before any frame header it prints exactly one     *)
(* marker line; every marker line printed in CompressedMode has a code     *)
(* with bit 7 set.                                                         *)

FrameDecoded == \E k \in DOMAIN out : IsFrameMarkerLine(out[k])

C4_Low ==
    (pc = "code" /\ StepTaken /\ pos < Len(file) /\ file[pos + 1] \in 1..127) =>
        IF FrameDecoded
        THEN pc' = "scan" /\ out' = out
        ELSE pc' = "unknown" /\ out' = out

C4_OneLine ==
    (pc = "unknown" /\ StepTaken) =>
        /\ Len(out') = Len(out) + 1
        /\ IsMarkerLine(Last(out'))
        /\ Last(out').offset = escape_at
        /\ pc' = "scan"

C4_HighOnly ==
    (jpegls_stream /\ Len(out') > Len(out) /\ IsMarkerLine(Last(out'))) =>
        /\ Len(Last(out').hex) = 2
        /\ HighBit(16 * DigitValue(Last(out').hex[1]) + DigitValue(Last(out').hex[2]))

\* C4: after a frame header only codes with bit 7 set are markers
C4_HighBitRule == [][C4_Low /\ C4_OneLine /\ C4_HighOnly]_vars

\* 0xFF 0x7F after a decoded frame header: the frame's lines are the last printed
C4_Witness ==
    /\ FrameDecoded /\ marker_code = 127 /\ pc = "scan" /\ pos = escape_at + 2
    /\ ~IsMarkerLine(Last(out))
    /\ status = "running"

----------------------------------------------------------------------------
(* C5: the first line of a marker reports the offset of its escape byte;   *)
(* every field line of a frame or scan header reports the cursor position  *)
(* just before the field's first byte is read, and these offsets increase  *)
(* strictly within the segment.                                            *)

C5_First ==
    (pc \in DecoderEntries /\ StepTaken) =>
        /\ Len(out') = Len(out) + 1
        /\ IsMarkerLine(Last(out'))
        /\ Last(out').offset = escape_at
        /\ file[Last(out').offset + 1] = ESCAPE

C5_Fields ==
    (pc \in FieldSteps /\ StepTaken /\ out' # out) =>
        /\ Len(out') = Len(out) + 1
        /\ ~IsMarkerLine(Last(out'))
        /\ Last(out').offset = reads'[Len(reads) + 1].at
        /\ Last(out').offset > Last(out).offset

\* C5: marker lines report the escape offset, field lines the offset of their first byte
C5_Offsets == [][C5_First /\ C5_Fields]_vars

\* a frame header with two components fully printed: 1 + 5 + 3 * 2 lines
C5_Witness ==
    /\ pc = "sof_return" /\ component_count = 2
    /\ Len(out) >= 12
    /\ out[Len(out) - 11].offset = escape_at
    /\ Last(out).offset = escape_at + 2 + 8 + 3 * 2 - 1

----------------------------------------------------------------------------
(* C6: a read of the scan loop itself past the last byte ends the run      *)
(* normally, for the byte compared with 0xFF and for the code byte after   *)
(* a 0xFF alike: a run can only fail inside a frame or scan decoder.       *)

\* C6: the run never fails in the scan loop, only inside a decoder's field read
C6_ScanLoopEndsNormally == (status = "error") => (pc \in FieldSteps)

----------------------------------------------------------------------------
(* C7: on the input FF D8 FF D9 the run prints exactly the SOI line with   *)
(* offset 0 and then the EOI line with offset 2, reads the four bytes once *)
(* each and returns normally.                                              *)

SoiEoi == <<255, 216, 255, 217>>

\* C7: FF D8 FF D9 gives the SOI line at 0, the EOI line at 2 and a normal end
C7_SoiEoi ==
    (file = SoiEoi) =>
        /\ status # "error"
        /\ status = "running" => ENABLED Next
        /\ Len(out) <= 2
        /\ Len(out) >= 1 =>
               IsMarkerLine(out[1]) /\ out[1].offset = 0 /\ out[1].hex = <<"D", "8">>
        /\ Len(out) >= 2 =>
               IsMarkerLine(out[2]) /\ out[2].offset = 2 /\ out[2].hex = <<"D", "9">>
        /\ status = "done" =>
               /\ Len(out) = 2
               /\ pos = 4
               /\ [k \in DOMAIN reads |-> reads[k].n] = <<1, 1, 1, 1, 0>>
               /\ ~jpegls_stream

C7_Witness == file = SoiEoi /\ status = "done" /\ Len(out) = 2

----------------------------------------------------------------------------
(* C8: a dispatched code other than D8, D9, F7, DA goes to the default     *)
(* decoder, which prints one line with the escape byte's offset and the    *)
(* code as two upper-case hexadecimal digits after 0xFF, reads nothing and *)
(* leaves the cursor just after the code byte, so that the bytes after it  *)
(* are scanned like any others.                                            *)

C8_Dispatch ==
    (/\ pc = "code" /\ StepTaken /\ pos < Len(file)
     /\ file[pos + 1] \notin {216, 217, 247, 218}
     /\ MarkerStart(jpegls_stream, file[pos + 1])) => pc' = "unknown"

C8_Line ==
    (pc = "unknown" /\ StepTaken) =>
        LET l == Last(out')
        IN  /\ out' = Append(out, l)
            /\ IsMarkerLine(l) /\ l.text = "" /\ l.value = <<>>
            /\ l.offset = escape_at
            /\ Len(l.hex) = 2
            /\ DigitValue(l.hex[1]) < 16 /\ DigitValue(l.hex[2]) < 16
            /\ 16 * DigitValue(l.hex[1]) + DigitValue(l.hex[2]) = CodeAt(escape_at)
            /\ reads' = reads
            /\ pos' = pos /\ pos = escape_at + 2
            /\ pc' = "scan" /\ status' = "running"

\* C8: the default decoder prints one line 0xFF<two hex digits> and reads nothing
C8_DefaultDecoder == [][C8_Dispatch /\ C8_Line]_vars

\* FF C0 FF D8: the marker pair in the payload of C0 gets its own line
C8_Witness ==
    /\ Len(out) = 2
    /\ out[1].offset = 0 /\ out[1].hex = <<"C", "0">>
    /\ out[2].offset = 2 /\ out[2].hex = <<"D", "8">>

----------------------------------------------------------------------------
(* C9: when the input ends inside a frame header the run fails with an     *)
(* end-of-data error; what was printed for the segment is its marker line  *)
(* and then one line for each field read in full, in field order, nothing  *)
(* for the field whose read failed; the failing decoder does not set the   *)
(* mode, which is CompressedMode only if an earlier frame header was       *)
(* decoded.                                                                *)

FrameFieldWidths(n) == <<2, 1, 2, 2, 1>> \o Repeat(<<1, 1, 1>>, n)

FrameFieldLabels(n) ==
    <<"Size", "Sample precision (P)", "Number of lines (Y)",
      "Number of samples per line (X)", "Number of image components in a frame (Nf)">>
    \o Repeat(<<"Component identifier (Ci)", "H and V sampling factor (Hi + Vi)",
                "Quantization table (Tqi) [reserved, should be 0]">>, n)

RECURSIVE SumFirst(_, _)
SumFirst(w, k) == IF k = 0 THEN 0 ELSE SumFirst(w, k - 1) + w[k]

\* how many leading fields of widths w fit in b bytes
CompleteFields(w, b) == Cardinality({k \in 1..Len(w) : SumFirst(w, k) <= b})

C9_Trace ==
    (status = "error" /\ pc \in FrameFieldSteps) =>
        LET e == escape_at
            b == Len(file) - (e + 2)
            n == IF b >= 8 THEN FrameCountAt(e) ELSE 0
            w == FrameFieldWidths(n)
            k == CompleteFields(w, b)
            m == Len(out) - k
        IN  /\ b < 8 + 3 * n
            /\ pos = Len(file)
            /\ Last(reads).n = 0
            /\ m >= 1 /\ IsFrameMarkerLine(out[m]) /\ out[m].offset = e
            /\ \A j \in 1..k :
                   /\ out[m + j].label = FrameFieldLabels(n)[j]
                   /\ out[m + j].offset = e + 2 + SumFirst(w, j - 1)
                   /\ ~out[m + j].open
            /\ jpegls_stream = (\E j \in 1..(m - 1) : IsFrameMarkerLine(out[j]))

C9_NoReturn == (pc = "sof_return") => FramePresent(escape_at)

C9_ModeKept ==
    (pc \in FrameFieldSteps /\ status' = "error") => jpegls_stream' = jpegls_stream

\* C9: a truncated frame header fails after printing exactly the fields read in full
C9_TruncatedFrame == [](C9_Trace /\ C9_NoReturn) /\ [][C9_ModeKept]_vars

\* the input ends in the second component of a first frame header
C9_Witness ==
    /\ status = "error" /\ pc = "sof_hv" /\ i = 1 /\ component_count = 2
    /\ ~jpegls_stream
    /\ Len(out) = 1 + 5 + 3 + 1

----------------------------------------------------------------------------
(* C10: the file is read forward only: the cursor never decreases, every   *)
(* read advances it by the number of bytes it returns (1 for a byte, 2 for *)
(* a 16-bit value, 0 at the end of the file), and no byte is read twice.   *)

Uint16Steps == {"sof_size", "sof_lines", "sof_samples", "sos_size"}

RECURSIVE Returned(_, _)
Returned(log, from) ==
    IF from > Len(log) THEN 0 ELSE log[from].n + Returned(log, from + 1)

C10_Log ==
    /\ \A k \in DOMAIN reads :
           /\ reads[k].n = IF reads[k].at < Len(file) THEN 1 ELSE 0
           /\ reads[k].at = IF k = 1 THEN 0 ELSE reads[k - 1].at + reads[k - 1].n
    /\ \A j, k \in DOMAIN reads :
           (j < k /\ reads[j].n = 1 /\ reads[k].n = 1) => reads[j].at # reads[k].at
    /\ pos = IF reads = <<>> THEN 0 ELSE Last(reads).at + Last(reads).n

C10_Step ==
    StepTaken =>
        /\ pos' >= pos
        /\ pos' - pos = Returned(reads', Len(reads) + 1)
        /\ (pc \in Uint16Steps /\ status' = "running") => pos' = pos + 2
        /\ (pc \in (FieldSteps \ Uint16Steps) \cup {"code"} /\ status' = "running") =>
               pos' = pos + 1
        /\ pc = "scan" => pos' = pos + Len(byte')
        /\ status' = "done" => pos' = pos

\* C10: reads are contiguous, forward only, and advance the cursor by the bytes returned
C10_ForwardOnly == []C10_Log /\ [][C10_Step]_vars

\* a frame header, with its 16-bit fields, read to the end of the file
C10_Witness ==
    /\ status = "done" /\ jpegls_stream
    /\ pos = Len(file) /\ Len(reads) = Len(file) + 1

----------------------------------------------------------------------------
(* C11: over the whole trace of a run, across markers and segments, the    *)
(* offsets of successive lines are strictly increasing.                    *)

\* C11: the offsets of successive printed lines increase strictly
C11_OffsetsIncrease ==
    \A k \in 1..(Len(out) - 1) : out[k].offset < out[k + 1].offset

\* a frame header and then a scan header, both printed to their last field
C11_Witness ==
    /\ status = "done"
    /\ \E j, k \in DOMAIN out :
           /\ j < k /\ k < Len(out)
           /\ IsFrameMarkerLine(out[j])
           /\ IsMarkerLine(out[k]) /\ out[k].hex = <<"D", "A">>
           /\ Last(out).label = "Point Transform"

----------------------------------------------------------------------------
(* C12: dispatch is by exact code: D8 to the StartOfImage decoder, D9 to   *)
(* EndOfImage, F7 to StartOfFrameJpegLs, DA to StartOfScan, every other    *)
(* dispatched code, F8, E0, E7, E8 and FE included, to the default one.    *)

\* the decoder the specification names for a code
DecoderFor(code) ==
    IF code = 216 THEN "soi"
    ELSE IF code = 217 THEN "eoi"
    ELSE IF code = 247 THEN "sof_marker"
    ELSE IF code = 218 THEN "sos_marker"
    ELSE "unknown"

C12_Step ==
    (pc = "code" /\ StepTaken /\ pc' \in DecoderEntries) =>
        /\ pos < Len(file)
        /\ pc' = DecoderFor(file[pos + 1])
        /\ file[pos + 1] \in {248, 224, 231, 232, 254} => pc' = "unknown"

\* the decoder's first line names the code it was called for
C12_FirstLine ==
    (pc \in DecoderEntries /\ StepTaken) =>
        /\ pc = DecoderFor(CodeAt(escape_at))
        /\ 16 * DigitValue(Last(out').hex[1]) + DigitValue(Last(out').hex[2])
               = CodeAt(escape_at)
        /\ (pc = "unknown") = (Last(out').text = "")

\* C12: the decoder entered after a dispatch is the one of the exact code
C12_ExactDispatch == [][C12_Step /\ C12_FirstLine]_vars

\* 0xFF 0xF8 (LSE) printed by the default decoder
C12_Witness ==
    /\ out # <<>> /\ marker_code = 248 /\ pc = "scan"
    /\ Last(out).hex = <<"F", "8">> /\ Last(out).text = ""
    /\ Last(out).offset = escape_at

----------------------------------------------------------------------------
(* C13: the interleave-mode name is "None" for 0, "Line interleaved" for   *)
(* 1, "Sample interleaved" for 2 and "Invalid" for 3..255; an invalid      *)
(* value is no error and the decoder goes on to the point-transform byte.  *)

InterleaveName(v) ==
    IF v = 0 THEN "None"
    ELSE IF v = 1 THEN "Line interleaved"
    ELSE IF v = 2 THEN "Sample interleaved"
    ELSE "Invalid"

C13_Step ==
    (pc = "sos_ilv" /\ StepTaken /\ pos < Len(file)) =>
        /\ Last(out').label = "Interleave mode (ILV parameter)"
        /\ Last(out').value = <<file[pos + 1]>>
        /\ Last(out').text = InterleaveName(file[pos + 1])
        /\ ~Last(out').open
        /\ status' = "running" /\ pc' = "sos_pt" /\ pos' = pos + 1

C13_Next ==
    (pc = "sos_pt" /\ StepTaken /\ pos < Len(file)) =>
        /\ Last(out).label = "Interleave mode (ILV parameter)"
        /\ Last(out').label = "Point Transform"
        /\ Last(out').value = <<file[pos + 1]>>
        /\ Last(out').offset = Last(out).offset + 1

\* C13: the name printed for the interleave byte, and the decoder reading on
C13_InterleaveNames == [][C13_Step /\ C13_Next]_vars

\* the interleave byte 0xFF printed as Invalid, the point transform read after it
C13_Witness ==
    /\ Len(out) >= 2 /\ pc = "scan" /\ status = "running"
    /\ Last(out).label = "Point Transform"
    /\ out[Len(out) - 1].value = <<255>>
    /\ out[Len(out) - 1].text = "Invalid"

----------------------------------------------------------------------------
(* C14: for frame and scan headers no summary line is printed: the first   *)
(* line printed for such a segment is the line of its size field.          *)
(* As stated this fails: both decoders print the marker line first.  What  *)
(* holds: the marker line, with the escape byte's offset, is the first     *)
(* line of the segment and the size line, two bytes on, is the second.     *)

\* C14 as stated: no marker line is ever printed for the codes F7 and DA
C14_NoSummaryLine ==
    \A k \in DOMAIN out :
        IsMarkerLine(out[k]) => out[k].hex \notin {<<"F", "7">>, <<"D", "A">>}

C14_Marker ==
    (pc \in {"sof_marker", "sos_marker"} /\ StepTaken) =>
        /\ Len(out') = Len(out) + 1
        /\ out' = Append(out, Last(out'))
        /\ IsMarkerLine(Last(out'))
        /\ Last(out').hex = (IF pc = "sof_marker" THEN <<"F", "7">> ELSE <<"D", "A">>)
        /\ Last(out').offset = escape_at
        /\ pos' = pos
        /\ pc' = (IF pc = "sof_marker" THEN "sof_size" ELSE "sos_size")

C14_Size ==
    (pc \in {"sof_size", "sos_size"} /\ StepTaken) =>
        /\ out # <<>>
        /\ IsMarkerLine(Last(out)) /\ Last(out).offset = escape_at
        /\ status' = "running" =>
               /\ Len(out') = Len(out) + 1
               /\ out' = Append(out, Last(out'))
               /\ Last(out').label = "Size"
               /\ Last(out').offset = escape_at + 2

\* C14, amended: the marker line is the first line of a frame or scan header,
\* the size line the second
C14_SummaryThenSize == [][C14_Marker /\ C14_Size]_vars

\* a scan header of which the marker line and the size line were printed
C14_Witness ==
    /\ pc = "sos_count" /\ Len(out) >= 2
    /\ Last(out).label = "Size"
    /\ IsMarkerLine(out[Len(out) - 1]) /\ out[Len(out) - 1].hex = <<"D", "A">>
    /\ out[Len(out) - 1].offset + 2 = Last(out).offset

----------------------------------------------------------------------------
(* C15: a scan header whose bytes are all present is read as size (2),     *)
(* component count (1), N pairs of component identifier (1) and mapping    *)
(* table selector (1), near-lossless (1), interleave mode (1) and point    *)
(* transform (1): 6 + 2N bytes after the code byte whatever the size field *)
(* says, with one field line per field in that order.                      *)

ScanCountAt(e) == file[e + 5]

ScanPresent(e) ==
    /\ Len(file) >= e + 5
    /\ Len(file) >= e + 2 + 6 + 2 * ScanCountAt(e)

ScanFieldWidths(n) == <<2, 1>> \o Repeat(<<1, 1>>, n) \o <<1, 1, 1>>

ScanFieldLabels(n) ==
    <<"Size", "Component Count">>
    \o Repeat(<<"Component identifier (Ci)", "Mapping table selector">>, n)
    \o <<"Near lossless (NEAR parameter)", "Interleave mode (ILV parameter)",
         "Point Transform">>

\* the value of the field of width w whose first byte is at offset o
FieldValueAt(o, w) == IF w = 2 THEN 256 * file[o + 1] + file[o + 2] ELSE file[o + 1]

C15_Inside ==
    (pc \in ScanFieldSteps \cup {"sos_marker"} /\ ScanPresent(escape_at)) =>
        /\ status = "running"
        /\ pos <= escape_at + 2 + 6 + 2 * ScanCountAt(escape_at)

C15_Return ==
    (pc = "sos_pt" /\ StepTaken /\ status' = "running") =>
        LET e == escape_at
            n == ScanCountAt(e)
            w == ScanFieldWidths(n)
            m == Len(out') - Len(w)
        IN  /\ ScanPresent(e)
            /\ pos' = e + 2 + 6 + 2 * n
            /\ pc' = "scan"
            /\ m >= 1
            /\ IsMarkerLine(out'[m]) /\ out'[m].hex = <<"D", "A">> /\ out'[m].offset = e
            /\ \A j \in 1..Len(w) :
                   /\ out'[m + j].label = ScanFieldLabels(n)[j]
                   /\ out'[m + j].offset = e + 2 + SumFirst(w, j - 1)
                   /\ out'[m + j].value = <<FieldValueAt(out'[m + j].offset, w[j])>>
                   /\ ~out'[m + j].open

\* C15: a complete scan header consumes 6 + 2N bytes, one line per field in order
C15_ScanHeader == []C15_Inside /\ [][C15_Return]_vars

\* a two-component scan header read to its end whose size field is not 6 + 2 * 2
C15_Witness ==
    /\ pc = "scan" /\ status = "running" /\ marker_code = START_OF_SCAN
    /\ component_count = 2 /\ pos = escape_at + 2 + 6 + 2 * 2
    /\ Last(out).label = "Point Transform"
    /\ 256 * file[escape_at + 3] + file[escape_at + 4] # 6 + 2 * 2

----------------------------------------------------------------------------
(* C16: a 16-bit field (segment size, number of lines, samples per line)   *)
(* is decoded from two consecutive bytes b0, b1 as 256 * b0 + b1, so it    *)
(* lies in 0..65535, and the cursor advances by exactly 2.                 *)

C16_Step ==
    (pc \in Uint16Steps /\ StepTaken /\ status' = "running") =>
        /\ pos + 2 <= Len(file)
        /\ Len(out') = Len(out) + 1
        /\ Last(out').value = <<256 * file[pos + 1] + file[pos + 2]>>
        /\ Last(out').value[1] \in 0..65535
        /\ Last(out').label \in
               {"Size", "Number of lines (Y)", "Number of samples per line (X)"}
        /\ pos' = pos + 2
        /\ SubSeq(reads', Len(reads) + 1, Len(reads'))
               = <<[at |-> pos, n |-> 1], [at |-> pos + 1, n |-> 1]>>

\* C16: 16-bit fields are read high byte first and advance the cursor by 2
C16_BigEndian == [][C16_Step]_vars

\* the size bytes 01 FE decoded as 510
C16_Witness ==
    /\ pc = "sof_precision" /\ out # <<>>
    /\ Last(out).label = "Size"
    /\ file[pos - 1] = 1 /\ file[pos] = 254
    /\ Last(out).value = <<510>>

----------------------------------------------------------------------------
(* C17: dump() terminates on every finite input: an iteration of the scan  *)
(* loop consumes at least one byte or ends the loop, a frame decoder makes *)
(* at most 8 + 3 * 255 reads and a scan decoder at most 6 + 2 * 255, so    *)
(* the run ends, normally or with an end-of-data error.                    *)

\* the reads made so far by the decoder that was entered last
DecoderReads == Cardinality({k \in DOMAIN reads : reads[k].at >= escape_at + 2})

C17_Bounded ==
    /\ component_count \in 0..255
    /\ InFrameDecoder =>
           /\ DecoderReads <= 8 + 3 * component_count
           /\ DecoderReads <= 8 + 3 * 255
    /\ pc \in ScanFieldSteps \cup {"sos_marker"} =>
           /\ DecoderReads <= 6 + 2 * component_count
           /\ DecoderReads <= 6 + 2 * 255

C17_Progress ==
    /\ (pc = "scan" /\ StepTaken) => (pos' = pos + 1 \/ status' = "done")
    /\ (pc = "code" /\ StepTaken) => (pos' = pos + 1 \/ status' = "error")
    /\ (pc \in FieldSteps /\ StepTaken) => (pos' > pos \/ status' = "error")
    /\ status # "running" => vars' = vars

\* C17: every run ends, with status done or error
C17_Terminates ==
    /\ []C17_Bounded
    /\ [][C17_Progress]_vars
    /\ <>(status # "running")

\* a run that ended with an end-of-data error inside a scan header
C17_Witness == status = "error" /\ pc \in ScanFieldSteps /\ pos = Len(file)

----------------------------------------------------------------------------
(* C18: the scan loop never silently skips a 0xFF byte. A 0xFF read by the *)
(* loop is always followed by the reading of a code byte; a code byte that  *)
(* is consumed without being dispatched is 0x00 in HeaderMode and one of    *)
(* 0x00..0x7F in CompressedMode, so never 0xFF; a code byte 0xFF is         *)
(* dispatched and reported as the marker 0xFFFF at the offset of its escape *)
(* byte.                                                                    *)

\* the loop read the byte at the cursor and it was 0xFF
ScanReadEscape == pc = "scan" /\ StepTaken /\ pos < Len(file) /\ file[pos + 1] = ESCAPE

\* the loop read a code byte
CodeRead == pc = "code" /\ StepTaken /\ pos < Len(file)

SkippedCodes == IF jpegls_stream THEN 0..127 ELSE {0}

C18_Step ==
    /\ ScanReadEscape => pc' = "code" /\ escape_at' = pos /\ pos' = pos + 1
    /\ CodeRead =>
          /\ escape_at = pos - 1 /\ file[pos] = ESCAPE
          /\ pc' = "scan" => file[pos + 1] \in SkippedCodes /\ file[pos + 1] # ESCAPE
          /\ file[pos + 1] = ESCAPE => pc' = "unknown" /\ marker_code' = ESCAPE
    /\ (pc = "unknown" /\ StepTaken /\ marker_code = ESCAPE) =>
          /\ Len(out') = Len(out) + 1
          /\ IsMarkerLine(Last(out'))
          /\ Last(out').hex = <<"F", "F">>
          /\ Last(out').offset = pos - 2
          /\ file[pos - 1] = ESCAPE /\ file[pos] = ESCAPE
          /\ pc' = "scan" /\ pos' = pos

\* C18: no 0xFF met by the scan loop is passed over unreported
C18_NoSilentEscape == [][C18_Step]_vars

\* 0xFF 0xFF met in CompressedMode: reported as the marker 0xFFFF
C18_Witness ==
    /\ jpegls_stream /\ pc = "scan" /\ marker_code = ESCAPE /\ out # <<>>
    /\ Last(out).hex = <<"F", "F">> /\ Last(out).offset = pos - 2
    /\ escape_at = pos - 2

----------------------------------------------------------------------------
(* C19: for every sampling-factor byte s in 0..255 read by the frame-header *)
(* decoder, the line shows s, h = s >> 4 and v = s & 0xF, where h and v are  *)
(* in 0..15 and 16 * h + v = s.                                             *)

\* the decoder read the sampling-factor byte and printed its line
SamplingRead == pc = "sof_hv" /\ StepTaken /\ pos < Len(file)

C19_Step ==
    SamplingRead =>
        LET s == file[pos + 1]
            l == Last(out')
        IN  /\ Len(out') = Len(out) + 1
            /\ s \in 0..255
            /\ l.label = "H and V sampling factor (Hi + Vi)"
            /\ l.offset = pos
            /\ Len(l.value) = 3
            /\ l.value[1] = s
            /\ l.value[2] = s \div 16
            /\ l.value[3] = s % 16
            /\ l.value[2] \in 0..15 /\ l.value[3] \in 0..15
            /\ 16 * l.value[2] + l.value[3] = s

\* C19: the two displayed nibbles are s >> 4 and s & 0xF and recompose s
C19_Nibbles == [][C19_Step]_vars

\* the byte 0xFF shown as 255, 15, 15
C19_Witness ==
    /\ pc = "sof_tq" /\ out # <<>>
    /\ Last(out).label = "H and V sampling factor (Hi + Vi)"
    /\ Last(out).value = <<255, 15, 15>>

====
